---- MODULE Spec2Model ----
(***************************************************************************)
(* Model of the Bot of machine-collaboration-utility (src/unnamed/part_000):*)
(* its lifecycle state machine, processCommand, the USB scanner, and the   *)
(* job streamer built on a line-by-line reader.                            *)
(*                                                                         *)
(* Granularity.  Node runs one callback (a request handler, a timer, a     *)
(* setImmediate, an I/O event) at a time and drains the microtask queue    *)
(* after it.  `await` of a value that is no pending promise (fsm.start(),  *)
(* lr.pause(), ...) only yields to the microtask queue, so an action of    *)
(* the model is one callback together with the code that follows it up to  *)
(* the next real wait: Promise.delay, the pre-scan of the file, the port   *)
(* listing, or the return of the handler.                                  *)
(***************************************************************************)
EXTENDS Integers, Sequences, FiniteSets, TLC

(* ------------------------------ bounds --------------------------------- *)
\* jobs handed to startJob in one behaviour of the whole Bot
MaxJobs == 1
\* jobs handed to startJob in one behaviour of the job streamer
MaxStreamJobs == 2
\* _nextLine callbacks one reader may have scheduled at a time
MaxImm == 2
\* connect / disconnect continuations waiting for config.virtualDelay
MaxDelays == 1
\* the same, in a behaviour of the connection alone
MaxConnDelays == 2
\* SerialPort.list callbacks outstanding
MaxScans == 1
\* open directives waiting in the CommandQueue
MaxOpens == 1

\* characters of a reply drawn freely
MaxReplyLen == 4

UNDEF == 0 - 1

(* --------------------------- lifecycle fsm ----------------------------- *)
States ==
  {"unavailable", "detecting", "ready", "connecting", "connected",
   "startingJob", "processingJob", "stopping", "processingGcode",
   "disconnecting"}

E(n, f, t) == [name |-> n, from |-> f, to |-> t]

\* the table with stopDone leading to `ready`
eventsStopDoneReady ==
  { E("detect",             "unavailable",     "detecting"),
    E("detectFail",         "detecting",       "unavailable"),
    E("detectDone",         "detecting",       "ready"),
    E("connect",            "ready",           "connecting"),
    E("connectFail",        "connecting",      "ready"),
    E("connectDone",        "connecting",      "connected"),
    E("start",              "connected",       "startingJob"),
    E("startFail",          "startingJob",     "connected"),
    E("startDone",          "startingJob",     "processingJob"),
    E("stop",               "processingJob",   "stopping"),
    E("stopDone",           "stopping",        "ready"),
    E("stopFail",           "stopping",        "connected"),
    E("jobToGcode",         "processingJob",   "processingGcode"),
    E("jobGcodeFail",       "processingGcode", "processingJob"),
    E("jobGcodeDone",       "processingGcode", "processingJob"),
    E("connectedToGcode",   "connected",       "processingGcode"),
    E("connectedGcodeFail", "processingGcode", "connected"),
    E("connectedGcodeDone", "processingGcode", "connected"),
    E("disconnect",         "connected",       "disconnecting"),
    E("disconnectFail",     "disconnecting",   "connected"),
    E("disconnectDone",     "disconnecting",   "ready"),
    E("unplug",             "*",               "unavailable") }

\* the `events` table handed to StateMachine.create
events ==
  { E("detect",             "unavailable",     "detecting"),
    E("detectFail",         "detecting",       "unavailable"),
    E("detectDone",         "detecting",       "ready"),
    E("connect",            "ready",           "connecting"),
    E("connectFail",        "connecting",      "ready"),
    E("connectDone",        "connecting",      "connected"),
    E("start",              "connected",       "startingJob"),
    E("startFail",          "startingJob",     "connected"),
    E("startDone",          "startingJob",     "processingJob"),
    E("stop",               "processingJob",   "stopping"),
    E("stopDone",           "stopping",        "connected"),
    E("stopFail",           "stopping",        "connected"),
    E("jobToGcode",         "processingJob",   "processingGcode"),
    E("jobGcodeFail",       "processingGcode", "processingJob"),
    E("jobGcodeDone",       "processingGcode", "processingJob"),
    E("connectedToGcode",   "connected",       "processingGcode"),
    E("connectedGcodeFail", "processingGcode", "connected"),
    E("connectedGcodeDone", "processingGcode", "connected"),
    E("disconnect",         "connected",       "disconnecting"),
    E("disconnectFail",     "disconnecting",   "connected"),
    E("disconnectDone",     "disconnecting",   "ready"),
    E("unplug",             "*",               "unavailable") }

EventNames == {e.name : e \in events}

\* fsm.can(event): the event has an entry for the current state or a wildcard
fsmCan(ev, st) ==
  \E e \in events : e.name = ev /\ (e.from = st \/ e.from = "*")

\* the target the fsm computes: map[from], else the wildcard entry
fsmTo(ev, st) ==
  IF \E e \in events : e.name = ev /\ e.from = st
    THEN (CHOOSE e \in events : e.name = ev /\ e.from = st).to
    ELSE (CHOOSE e \in events : e.name = ev /\ e.from = "*").to

(* ------------------------------ job files ------------------------------ *)
\* A line is a sequence of characters; a file is its lines and whether the
\* last one is terminated by a newline.
FileIds == {1, 2}
ShortFiles == {2}
Missing == 0
fileLines(f) ==
  IF f = 1 THEN << <<"G", ";", "c">>, <<";", "c">>, <<"X">> >>
           ELSE << <<"X">> >>
fileFinalNewline(f) == f = 1

(* ------------------------------- state --------------------------------- *)
VARIABLES
  state,        \* this.fsm.current
  virtual,      \* this.virtual
  device,       \* this.device: "undefined", "usb" or "spoofed"
  port,         \* this.port: "undefined" or "com"
  queue,        \* this.queue: FALSE while undefined, TRUE once constructed
  currentJob,   \* this.currentJob: a job id, 0 while undefined
  lr,           \* this.lr: a reader id, 0 while undefined
  currentLine,  \* this.currentLine, UNDEF before the first startJob
  numLines,     \* this.numLines, UNDEF before the first pre-scan ends
  jobs,         \* the Job entities: run-state and file id
  readers,      \* the LineByLineReader objects, one per job handed in
  sent,         \* per job, the commands its lines forwarded to the queue
  delays,       \* connect/disconnect continuations in Promise.delay(virtualDelay)
  lineTimers,   \* 'line' handlers in Promise.delay(100), oldest first
  scans,        \* startJob continuations awaiting fsPromise: job and count
  portScans,    \* attach handlers awaiting SerialPort.list
  opens,        \* open directives queued in the CommandQueue, not completed
  log,          \* what the last callback did, in order (kept while tracing)
  tracing,      \* whether the log is kept in this behaviour
  reply,        \* the reply handed to validateReply, a sequence of characters
  ack           \* what validateReply returned for it: "none" before the call

vars ==
  <<state, virtual, device, port, queue, currentJob, lr, currentLine,
    numLines, jobs, readers, sent, delays, lineTimers, scans, portScans,
    opens, log,
    tracing, reply, ack>>

JobIds == DOMAIN jobs

\* one entry of the log
L(k, ev, from, to, cmd) ==
  [k |-> k, ev |-> ev, from |-> from, to |-> to, cmd |-> cmd]
\* the callback that starts, with the lifecycle state it starts in
Called(op)  == L("call", op, state, "-", <<>>)
CalledWith(op, arg) == L("call", op, state, "-", arg)
Did(what)   == L(what, "-", "-", "-", <<>>)

\* the program state as one value, with `thrown` for a pending exception
Cur ==
  [state |-> state, virtual |-> virtual, device |-> device, port |-> port,
   queue |-> queue, currentJob |-> currentJob, lr |-> lr,
   currentLine |-> currentLine, numLines |-> numLines, jobs |-> jobs,
   readers |-> readers, sent |-> sent, delays |-> delays,
   lineTimers |-> lineTimers, scans |-> scans, portScans |-> portScans,
   opens |-> opens,
   log |-> <<>>, thrown |-> FALSE]

\* the callback's result becomes the state; the result is taken as one value
Commit(s) ==
  \E r \in {s} :
    /\ state' = r.state
    /\ virtual' = r.virtual
    /\ device' = r.device
    /\ port' = r.port
    /\ queue' = r.queue
    /\ currentJob' = r.currentJob
    /\ lr' = r.lr
    /\ currentLine' = r.currentLine
    /\ numLines' = r.numLines
    /\ jobs' = r.jobs
    /\ readers' = r.readers
    /\ sent' = r.sent
    /\ delays' = r.delays
    /\ lineTimers' = r.lineTimers
    /\ scans' = r.scans
    /\ portScans' = r.portScans
    /\ opens' = r.opens
    /\ log' = IF tracing THEN r.log ELSE <<>>
    /\ tracing' = tracing
    /\ UNCHANGED <<reply, ack>>

Note(s, entry) == [s EXCEPT !.log = Append(@, entry)]
Throw(s, what) == [Note(s, Did(what)) EXCEPT !.thrown = TRUE]
\* a catch block, or the promise of an async function, takes the exception
Caught(s) == [s EXCEPT !.thrown = FALSE]

\* an error callback that logs and returns
fsmErrorNoThrow(s, ev) == Note(s, L("error", ev, s.state, s.state, <<>>))

\* the `error` callback: log the message and throw it
fsmError(s, ev) ==
  [Note(Note(s, L("error", ev, s.state, s.state, <<>>)),
        L("throw", ev, s.state, s.state, <<>>))
     EXCEPT !.thrown = TRUE]

\* an onenterstate that broadcasts the state that was left
onenterstateFrom(s, ev, from, to) == Note(s, L("emit", ev, to, from, <<>>))

\* the `onenterstate` callback: broadcast the new state
onenterstate(s, ev, from, to) == Note(s, L("emit", ev, from, to, <<>>))

\* fsm.<ev>(): refused through the error callback when the event is not
\* allowed in the current state; without entering a state when the target
\* is the current state; else the state changes and onenterstate runs
\* before the call returns.
Fire(s, ev) ==
  LET from == s.state
      to   == fsmTo(ev, from)
  IN  IF ~fsmCan(ev, from) THEN fsmError(s, ev)
      ELSE IF from = to THEN Note(s, L("event", ev, from, to, <<>>))
      ELSE onenterstate(
             [Note(s, L("event", ev, from, to, <<>>)) EXCEPT !.state = to],
             ev, from, to)

(* ------------------------- detect / unplug ----------------------------- *)
\* a detect that leaves the bot in `detecting`, its outcome still to come
detectPending(s, fails) == Fire(s, "detect")

\* detect(device): fsm.detect() is outside the try; the CommandQueue is
\* built only for a bot that is not virtual.  `fails` is the executor or
\* queue constructor throwing.
detect(s, fails) ==
  LET s1 == Fire(s, "detect")
      s2 == IF s1.virtual THEN [s1 EXCEPT !.device = "spoofed"]
            ELSE IF fails THEN Throw(s1, "executorError")
            ELSE [s1 EXCEPT !.queue = TRUE]
  IN  IF s1.thrown THEN s1
      ELSE IF s2.thrown THEN Fire(Caught(s2), "detectFail")
      ELSE LET s3 == Fire(s2, "detectDone")
           IN  IF s3.thrown THEN Fire(Caught(s3), "detectFail") ELSE s3

\* unplug(): the device is forgotten and the fsm unplugged.  Every job
\* alive at that moment is marked as disturbed (a history flag).
unplug(s) ==
  Fire([s EXCEPT !.device = "undefined",
                 !.jobs = [j \in DOMAIN @ |->
                             [@[j] EXCEPT !.undisturbed = FALSE]]],
       "unplug")

(* ------------------------ connect / disconnect ------------------------- *)
\* connect() up to its first wait
connect(s) ==
  LET s1 == Fire(s, "connect")
  IN  IF s1.thrown THEN Fire(Caught(s1), "connectFail")
      ELSE IF s1.virtual
        THEN [s1 EXCEPT !.delays = Append(@, "connect")]
      ELSE IF ~s1.queue THEN Fire(Caught(Throw(s1, "TypeError")), "connectFail")
      ELSE LET s2 == Fire(Note([s1 EXCEPT !.opens = @ + 1], Did("queueOpen")),
                          "connectDone")
           IN  IF s2.thrown THEN Fire(Caught(s2), "connectFail") ELSE s2

\* disconnect() up to its first wait: both branches wait virtualDelay
disconnect(s) ==
  LET s1 == Fire(s, "disconnect")
  IN  IF s1.thrown THEN Fire(Caught(s1), "disconnectFail")
      ELSE [s1 EXCEPT !.delays = Append(@, "disconnect")]

\* the rest of connect() / disconnect() once the delay has elapsed
afterDelay(s, which) ==
  LET done == IF which = "connect" THEN "connectDone" ELSE "disconnectDone"
      fail == IF which = "connect" THEN "connectFail" ELSE "disconnectFail"
      s1   == Fire(s, done)
  IN  IF s1.thrown THEN Fire(Caught(s1), fail) ELSE s1

(* ---------------------------- processCommand --------------------------- *)
\* a default case that answers with the bot
unsupportedAnswered(s, command) ==
  Note(s, L("return", "getBot", "-", s.state, <<>>))

\* the default case: throw the message
unsupported(s, command) == Throw(s, "notSupported")

Commands ==
  {"createVirtualBot", "destroyVirtualBot", "connect", "disconnect", "bogus"}

processCommand(s, command) ==
  IF command = "createVirtualBot" THEN
    IF ~s.virtual
      THEN Note(Caught(detect([s EXCEPT !.virtual = TRUE], FALSE)),
                L("return", "getBot", "-",
                  detect([s EXCEPT !.virtual = TRUE], FALSE).state, <<>>))
      ELSE Note(s, L("return", "getBot", "-", s.state, <<>>))
  ELSE IF command = "destroyVirtualBot" THEN
    IF s.virtual
      THEN LET s1 == unplug(s)
           IN  IF s1.thrown THEN s1
               ELSE Note([s1 EXCEPT !.virtual = FALSE],
                         L("return", "getBot", "-", s1.state, <<>>))
      ELSE Note(s, L("return", "getBot", "-", s.state, <<>>))
  ELSE IF command = "connect" THEN
    LET s1 == Caught(connect(s))
    IN  Note(s1, L("return", "getBot", "-", s1.state, <<>>))
  ELSE IF command = "disconnect" THEN
    LET s1 == Caught(disconnect(s))
    IN  Note(s1, L("return", "getBot", "-", s1.state, <<>>))
  ELSE unsupported(s, command)

(* ------------------------------- USB ----------------------------------- *)
\* verifyVidPid(device): a matching device is remembered
verifyVidPid(s, matches) ==
  IF matches THEN [s EXCEPT !.device = "usb"] ELSE s

\* A string is a sequence of characters.
RECURSIVE split(_, _)
\* str.split(sep): the pieces between the separators, the empty ones kept
split(str, sep) ==
  IF \A i \in 1 .. Len(str) : str[i] # sep THEN <<str>>
  ELSE LET i == CHOOSE i \in 1 .. Len(str) :
                  str[i] = sep /\ \A k \in 1 .. (i - 1) : str[k] # sep
       IN  <<SubSeq(str, 1, i - 1)>> \o split(SubSeq(str, i + 1, Len(str)), sep)

\* _.last(array)
last(array) == array[Len(array)]

\* the hexadecimal digits, the digit of value v at index v + 1
HexDigits ==
  <<"0", "1", "2", "3", "4", "5", "6", "7", "8", "9",
    "a", "b", "c", "d", "e", "f">>

NaN == UNDEF

RECURSIVE parseDigits(_, _)
\* the value of the longest run of hexadecimal digits str starts with
parseDigits(str, acc) ==
  IF str = <<>> \/ \A v \in DOMAIN HexDigits : HexDigits[v] # str[1] THEN acc
  ELSE parseDigits(Tail(str),
         16 * acc + (CHOOSE v \in DOMAIN HexDigits : HexDigits[v] = str[1]) - 1)

\* parseInt(str, 16) of a string that has no `0x` left: NaN unless it
\* starts with a hexadecimal digit
parseInt16(str) ==
  IF str = <<>> \/ \A v \in DOMAIN HexDigits : HexDigits[v] # str[1] THEN NaN
  ELSE parseDigits(str, 0)

\* the ids of the descriptor this.device holds: the spoofed ones, which are
\* those of the configured bot
idVendor == 5824
idProduct == 1155

\* A port of the listing has a comName and the ids as SerialPort.list gives
\* them: hexadecimal strings, or nothing for a port that is no USB device.
NoId == <<"undefined">>
Port(c, v, q) == [comName |-> c, vendorId |-> v, productId |-> q]
Vx16c0 == <<"0", "x", "1", "6", "c", "0">>
Vx2341 == <<"0", "x", "2", "3", "4", "1">>
Px0483 == <<"0", "x", "0", "4", "8", "3">>
Px0043 == <<"0", "x", "0", "0", "4", "3">>
Ports ==
  { Port("com", Vx16c0, Px0483), Port("tty", Vx2341, Px0043),
    Port("tty", Vx16c0, Px0043), Port("tty", NoId, NoId) }
\* ports in one listing
MaxPorts == 2
Listings == UNION {[1 .. n -> Ports] : n \in 0 .. MaxPorts}

RECURSIVE scanPorts(_, _, _)
\* the loop of the SerialPort.list callback from port i on: "TypeError" for
\* a property read of undefined (self.device cleared by a detach, or a port
\* without ids), a comName for the first port with the device's ids, and
\* "reject" past the end of the list
scanPorts(s, ports, i) ==
  IF i > Len(ports) THEN "reject"
  ELSE IF s.device = "undefined" THEN "TypeError"
  ELSE IF ports[i].vendorId = NoId THEN "TypeError"
  ELSE IF idVendor # parseInt16(last(split(ports[i].vendorId, "x")))
    THEN scanPorts(s, ports, i + 1)
  ELSE IF ports[i].productId = NoId THEN "TypeError"
  ELSE IF idProduct # parseInt16(last(split(ports[i].productId, "x")))
    THEN scanPorts(s, ports, i + 1)
  ELSE ports[i].comName

\* the callback of SerialPort.list in getPort, then the attach handler:
\* a port with the device's ids resolves and detect() runs; none rejects.
getPortListed(s, ports, fails) ==
  LET r == scanPorts(s, ports, 1)
  IN  IF r = "reject" THEN Note(s, Did("noPort"))
      ELSE IF r = "TypeError" THEN Note(s, Did("TypeError"))
      ELSE Caught(detect([s EXCEPT !.port = r], fails))

(* --------------------------- line reader ------------------------------- *)
\* The LineByLineReader of the `line-by-line` package, by what the Bot
\* relies on: pause() and resume() set a flag, resume() and close() schedule
\* a _nextLine, and _nextLine hands out one buffered line per call unless
\* the reader is paused.
NoReader ==
  [made |-> FALSE, paused |-> FALSE, lines |-> <<>>, fragment |-> 0,
   end |-> FALSE, ended |-> FALSE, closed |-> FALSE, imm |-> 0,
   delivered |-> <<>>, eof |-> FALSE]

\* new LineByLineReader(filePath).  The file is read in one chunk, split at
\* the newlines; the text after the last newline is kept as the fragment.
\* Nothing is handed out before a _nextLine runs, so the chunk is taken as
\* read when the reader is made and its first _nextLine as scheduled.
NewReader(f) ==
  LET n == Len(fileLines(f))
  IN  [NoReader EXCEPT
         !.made = TRUE,
         !.lines = IF fileFinalNewline(f) THEN [i \in 1 .. n |-> i]
                                          ELSE [i \in 1 .. (n - 1) |-> i],
         !.fragment = IF fileFinalNewline(f) THEN 0 ELSE n,
         !.imm = 1]

lrPause(s, r) == [s EXCEPT !.readers[r].paused = TRUE]

lrResume(s, r) ==
  [s EXCEPT !.readers[r].paused = FALSE, !.readers[r].imm = @ + 1]

lrClose(s, r) ==
  Note([s EXCEPT !.readers[r].closed = TRUE, !.readers[r].end = TRUE,
                 !.readers[r].lines = <<>>, !.readers[r].imm = @ + 1],
       L("close", "-", "-", "-", <<>>))

(* ----------------------------- job entity ------------------------------ *)
\* The Job of the jobs API: its run-state, its file, and a history flag
\* telling that it was started on a connected Bot and that no pause,
\* resume, cancel or unplug was issued since.
NoJob == [st |-> "none", file |-> Missing, undisturbed |-> FALSE]

\* the jobs API starts a job: it is running when the Bot gets it
jobStart(s, j, f) ==
  [s EXCEPT !.jobs[j] =
     [st |-> "running", file |-> f, undisturbed |-> s.state = "connected"]]

\* the jobs API pauses, resumes or cancels the job before it calls the Bot
jobTurn(s, j, st) ==
  [s EXCEPT !.jobs[j].st = st, !.jobs[j].undisturbed = FALSE]

\* currentJob.fsm.current === `running`
jobRunning(s) ==
  s.currentJob # 0 /\ s.jobs[s.currentJob].st = "running"

\* currentJob.fsm.complete(): the job's own machine takes it from running
jobComplete(s) ==
  IF s.currentJob = 0 THEN Throw(s, "TypeError")
  ELSE IF s.jobs[s.currentJob].st # "running" THEN Throw(s, "jobError")
  ELSE Note([s EXCEPT !.jobs[s.currentJob].st = "completed"],
            L("complete", "-", "-", "-", <<>>))

(* ---------------------------- job streamer ----------------------------- *)
RECURSIVE stripComment(_)
\* line.split(';')[0]: the text before the first semicolon
stripComment(line) ==
  IF line = <<>> \/ Head(line) = ";" THEN <<>>
  ELSE <<Head(line)>> \o stripComment(Tail(line))

\* the pre-scan's count: one per line terminator in the file
countLines(f) ==
  IF fileFinalNewline(f) THEN Len(fileLines(f)) ELSE Len(fileLines(f)) - 1

\* the 'line' handler up to its first await: self.lr.pause()
lineReceived(s, r, i) ==
  LET s1 == Note([s EXCEPT !.readers[r].delivered = Append(@, i)],
                 L("line", "-", "-", "-", fileLines(s.jobs[r].file)[i]))
  IN  IF s1.lr = 0 THEN Note(s1, Did("TypeError")) ELSE lrPause(s1, s1.lr)

\* the 'line' handler after that await, up to Promise.delay(100) or its end
lineCounted(s, r, i) ==
  LET strippedLine == stripComment(fileLines(s.jobs[r].file)[i])
      s1 == [s EXCEPT !.currentLine = @ + 1]
  IN  IF Len(strippedLine) <= 0 THEN lrResume(s1, s1.lr)
      ELSE [s1 EXCEPT !.lineTimers =
              Append(@, [job |-> r, idx |-> i, cmd |-> strippedLine])]

\* the 'line' handler after Promise.delay(100)
lineDelayed(s, t) ==
  IF ~s.queue THEN Throw(s, "TypeError")
  ELSE LET s1 == Note([s EXCEPT !.sent[t.job] = Append(@, t.cmd)],
                      L("forward", "-", "-", "-", t.cmd))
       IN  IF s1.currentJob = 0 THEN Throw(s1, "TypeError")
           ELSE IF ~jobRunning(s1) THEN s1
           ELSE IF s1.lr = 0 THEN Throw(s1, "TypeError")
           ELSE lrResume(s1, s1.lr)

\* the 'end' handler up to its first await: fsm.stop()
endReceived(s, r) ==
  Fire(Note([s EXCEPT !.readers[r].ended = TRUE,
                      !.readers[r].eof = ~s.readers[r].closed],
            Did("end")),
       "stop")

\* the 'end' handler after that await
endStopped(s) ==
  IF s.lr = 0 THEN Throw(s, "TypeError")
  ELSE LET s1 == Fire(lrClose(s, s.lr), "stopDone")
       IN  IF s1.thrown THEN s1
           ELSE LET s2 == jobComplete(s1)
                IN  IF s2.thrown THEN s2 ELSE Note(s2, Did("stopwatch"))

\* one scheduled _nextLine of reader r, with the handlers it calls
nextLine(s, r) ==
  LET rd == s.readers[r]
  IN  IF rd.paused THEN s
      ELSE IF rd.lines = <<>> THEN
        \* the buffer is empty: the stream is resumed, reports its end,
        \* and that schedules the next _nextLine
        IF ~rd.end THEN [s EXCEPT !.readers[r].end = TRUE,
                                  !.readers[r].imm = @ + 1]
        ELSE
          LET hasLine == rd.fragment # 0
              handled == hasLine /\ s.lr # 0
              s1 == IF hasLine
                      THEN lineReceived([s EXCEPT !.readers[r].fragment = 0],
                                        r, rd.fragment)
                      ELSE s
              ends == ~s1.readers[r].paused /\ ~s1.readers[r].ended
              s2 == IF ends THEN endReceived(s1, r) ELSE s1
              s3 == IF handled THEN lineCounted(Caught(s2), r, rd.fragment)
                    ELSE Caught(s2)
          IN  IF ends /\ ~s2.thrown THEN Caught(endStopped(s3)) ELSE s3
      ELSE
        LET i  == Head(rd.lines)
            s1 == lineReceived([s EXCEPT !.readers[r].lines = Tail(@),
                                         !.readers[r].imm = @ + 1], r, i)
        IN  IF s.lr # 0 THEN lineCounted(s1, r, i) ELSE s1

\* startJob(job) up to `await fsPromise`
startJob(s, j) ==
  LET s0 == [s EXCEPT !.currentJob = j]
      s1 == Fire(s0, "start")
  IN  IF s1.thrown THEN s1
      ELSE IF s1.jobs[j].file = Missing THEN Throw(s1, "fileError")
      ELSE [s1 EXCEPT !.lr = j,
                      !.readers[j] =
                        [NewReader(s1.jobs[j].file) EXCEPT !.paused = TRUE],
                      !.currentLine = 0,
                      !.scans = Append(@, [job |-> j,
                                           n |-> countLines(s1.jobs[j].file)])]

\* startJob after fsPromise: numLines is set by the stream's 'end'
startScanned(s, n) ==
  LET s1 == [s EXCEPT !.numLines = n]
  IN  IF s1.lr = 0 THEN Throw(s1, "TypeError")
      ELSE Fire(lrResume(s1, s1.lr), "startDone")

pauseJob(s) ==
  IF s.state # "connected"
    THEN LET s1 == Fire(s, "stop")
         IN  IF s1.thrown THEN s1
             ELSE IF s1.lr = 0 THEN Throw(s1, "TypeError")
             ELSE Fire(lrPause(s1, s1.lr), "stopDone")
    ELSE s

resumeJob(s) ==
  IF s.state # "processingJob"
    THEN LET s1 == Fire(s, "start")
         IN  IF s1.thrown THEN s1
             ELSE IF s1.lr = 0 THEN Throw(s1, "TypeError")
             ELSE Fire(lrResume(s1, s1.lr), "startDone")
    ELSE s

stopJob(s) ==
  IF s.state # "connected"
    THEN LET s1 == Fire(s, "stop")
         IN  IF s1.thrown THEN s1
             ELSE IF s1.lr = 0 THEN Throw(s1, "TypeError")
             ELSE Fire([lrClose(s1, s1.lr) EXCEPT !.lr = 0], "stopDone")
    ELSE s

(* ------------------------------ actions -------------------------------- *)
\* the fields the constructor sets, with room for n jobs
Constructed(n) ==
  /\ state = "unavailable"
  /\ virtual = FALSE
  /\ device = "undefined"
  /\ port = "undefined"
  /\ queue = FALSE
  /\ currentJob = 0
  /\ lr = 0
  /\ currentLine = UNDEF
  /\ numLines = UNDEF
  /\ jobs = [j \in 1 .. n |-> NoJob]
  /\ readers = [j \in 1 .. n |-> NoReader]
  /\ sent = [j \in 1 .. n |-> <<>>]
  /\ delays = <<>>
  /\ lineTimers = <<>>
  /\ scans = <<>>
  /\ portScans = <<>>
  /\ opens = 0

\* no reply has been handed to validateReply
NoReply == reply = <<>> /\ ack = "none"

Init ==
  /\ Constructed(MaxJobs)
  /\ NoReply
  /\ log = <<L("call", "constructor", "none", "-", <<>>),
             L("event", "startup", "none", "unavailable", <<>>),
             L("emit", "startup", "none", "unavailable", <<>>)>>
  /\ tracing = TRUE

\* a request to the Bot API, with at most n virtual delays running
ProcessCommandUpTo(n) ==
  \E command \in Commands :
    /\ command \in {"connect", "disconnect"} => Len(delays) < n
    /\ command = "connect" => opens < MaxOpens
    /\ Commit(processCommand(Note(Cur, Called(command)), command))

ProcessCommand == ProcessCommandUpTo(MaxDelays)

ProcessConnCommand == ProcessCommandUpTo(MaxConnDelays)

DelayElapsed ==
  /\ delays # <<>>
  /\ Commit(afterDelay(
       Note([Cur EXCEPT !.delays = Tail(@)], Called(Head(delays))),
       Head(delays)))

\* usb 'attach', and each device of the startup enumeration
UsbAttach ==
  \E matches \in BOOLEAN :
    /\ Len(portScans) < MaxScans
    /\ LET s1 == verifyVidPid(Note(Cur, CalledWith("attach", <<matches>>)),
                              matches)
       IN  Commit(IF matches /\ s1.device # "undefined"
                    THEN [s1 EXCEPT !.portScans = Append(@, "list")]
                    ELSE s1)

\* the SerialPort.list callback of getPort and what the attach handler
\* does with its answer, for a listing out of `listings`
PortsListedOf(listings) ==
  \E ports \in listings, fails \in BOOLEAN :
    /\ portScans # <<>>
    /\ LET s0 == Note([Cur EXCEPT !.portScans = Tail(@)],
                      CalledWith("ports", ports))
       IN  Commit(getPortListed(s0, ports, fails))

\* no port, or the port of the device alone
PortsListed == PortsListedOf({<<>>, <<Port("com", Vx16c0, Px0483)>>})

\* any listing
PortsScanned == PortsListedOf(Listings)

\* the CommandQueue has run an open directive: the channel is open, or the
\* open failed.  connect() kept nothing of queueCommands, so nothing of the
\* Bot runs.
OpenCompleted ==
  \E ok \in BOOLEAN :
    /\ opens > 0
    /\ Commit(Note([Cur EXCEPT !.opens = @ - 1], CalledWith("opened", <<ok>>)))

UsbDetach ==
  \E matches \in BOOLEAN :
    LET s1 == verifyVidPid(Note(Cur, Called("detach")), matches)
    IN  Commit(IF matches THEN Caught(unplug(s1)) ELSE s1)

\* the Job API starts job j on file f and hands it to the Bot
StartJobOf(files) ==
  \E j \in JobIds, f \in files \cup {Missing} :
    /\ jobs[j].st = "none"
    /\ \A k \in JobIds : k < j => jobs[k].st # "none"
    /\ Commit(Caught(startJob(
         jobStart(Note(Cur, Called("startJob")), j, f), j)))

StartJob == StartJobOf(ShortFiles)

StartStreamJob == StartJobOf(FileIds)

\* the pre-scan of a started job reaches the end of its file
PreScanDone ==
  \E i \in 1 .. Len(scans) :
    Commit(Caught(startScanned(
      Note([Cur EXCEPT !.scans =
              [k \in 1 .. (Len(scans) - 1) |->
                 IF k < i THEN scans[k] ELSE scans[k + 1]]],
           Called("scanned")),
      scans[i].n)))

\* the Job API pauses the running current job j: the job turns paused, then pauseJob()
PauseJob ==
  \E j \in JobIds :
    /\ j = currentJob
    /\ jobs[j].st = "running"
    /\ Commit(Caught(pauseJob(
         jobTurn(Note(Cur, Called("pauseJob")), j, "paused"))))

\* the Job API resumes the paused current job j: the job turns running, then resumeJob()
ResumeJob ==
  \E j \in JobIds :
    /\ j = currentJob
    /\ jobs[j].st = "paused"
    /\ lr # 0 => readers[lr].imm < MaxImm
    /\ Commit(Caught(resumeJob(
         jobTurn(Note(Cur, Called("resumeJob")), j, "running"))))

\* the Job API cancels the current job j: the job turns canceled, then stopJob()
StopJob ==
  \E j \in JobIds :
    /\ j = currentJob
    /\ jobs[j].st \in {"running", "paused"}
    /\ Commit(Caught(stopJob(
         jobTurn(Note(Cur, Called("stopJob")), j, "canceled"))))

\* one scheduled _nextLine of reader r runs
LrNextLine ==
  \E r \in JobIds :
    /\ readers[r].imm > 0
    /\ Commit(nextLine(
         Note([Cur EXCEPT !.readers[r].imm = @ - 1], Called("nextLine")), r))

\* the oldest Promise.delay(100) of a 'line' handler elapses
LineDelayElapsed ==
  /\ lineTimers # <<>>
  /\ Commit(Caught(lineDelayed(
       Note([Cur EXCEPT !.lineTimers = Tail(@)], Called("lineDelay")),
       Head(lineTimers))))

Next ==
  \/ ProcessCommand
  \/ DelayElapsed
  \/ UsbAttach
  \/ PortsListed
  \/ OpenCompleted
  \/ UsbDetach
  \/ StartJob
  \/ PreScanDone
  \/ PauseJob
  \/ ResumeJob
  \/ StopJob
  \/ LrNextLine
  \/ LineDelayElapsed

Spec == Init /\ [][Next]_vars

(* ------------------------- the job streamer ---------------------------- *)
\* The Bot once connected: a physical one (detected on an attach, its queue
\* built, connect done) or a virtual one (createVirtualBot, connect and the
\* virtual delay), with the jobs still to come.
Connected(n) ==
  /\ state = "connected"
  /\ \/ virtual = FALSE /\ device = "usb" /\ port = "com" /\ queue = TRUE
     \/ virtual = TRUE /\ device = "spoofed" /\ port = "undefined"
        /\ queue = FALSE
  /\ currentJob = 0
  /\ lr = 0
  /\ currentLine = UNDEF
  /\ numLines = UNDEF
  /\ jobs = [j \in 1 .. n |-> NoJob]
  /\ readers = [j \in 1 .. n |-> NoReader]
  /\ sent = [j \in 1 .. n |-> <<>>]
  /\ delays = <<>>
  /\ lineTimers = <<>>
  /\ scans = <<>>
  /\ portScans = <<>>
  /\ opens = 0

InitJob ==
  /\ Connected(MaxStreamJobs)
  /\ NoReply
  /\ log = <<>>
  /\ tracing = FALSE

\* usb 'detach' of the bot's device
Unplugged ==
  Commit(Caught(unplug(verifyVidPid(Note(Cur, Called("detach")), TRUE))))

NextJob ==
  \/ StartStreamJob
  \/ PreScanDone
  \/ PauseJob
  \/ ResumeJob
  \/ StopJob
  \/ LrNextLine
  \/ LineDelayElapsed
  \/ Unplugged

SpecJob == InitJob /\ [][NextJob]_vars

(* ---------------------- the lifecycle fsm alone ------------------------ *)
\* any event of the table invoked on the Bot's fsm, in whatever state it is
FsmInvoke ==
  \E ev \in EventNames :
    Commit(Caught(Fire(Note(Cur, Called(ev)), ev)))

NextFsm == FsmInvoke

SpecFsm == Init /\ [][NextFsm]_vars

(* ------------------------ the connection alone ------------------------- *)
\* The Bot without jobs: commands, virtual delays and the USB scanner.
InitConn ==
  /\ Constructed(MaxJobs)
  /\ NoReply
  /\ log = <<>>
  /\ tracing = TRUE

NextConn ==
  \/ ProcessConnCommand
  \/ DelayElapsed
  \/ UsbAttach
  \/ PortsScanned
  \/ OpenCompleted
  \/ UsbDetach

SpecConn == InitConn /\ [][NextConn]_vars

(* ----------------------- the Virtual unplug command ------------------- *)
\* an unplug command whose catch is the last thing done for the job
unplugCommandNoFinal(s, cancelFails) ==
  LET s1 == Fire(s, "unplug")
      j  == s1.currentJob
      c  == Note(s1, L("cancel", "-", "-", "-", <<j>>))
      s2 == IF j = 0 THEN s1
            ELSE IF cancelFails THEN Note(c, Did("cancelError"))
            ELSE [jobTurn(c, j, "canceled") EXCEPT !.currentJob = 0]
  IN  IF s1.thrown THEN s1
      ELSE Note(s2, L("return", "getBot", "-", s2.state, <<>>))

\* unplug(self, params) of bots/Virtual/commands/unplug.js: fsm.unplug(),
\* then the job, if there is one, is cancelled inside a try; the catch logs,
\* and the reference is cleared after it in either case.  `cancelFails` is
\* currentJob.cancel() throwing.
unplugCommand(s, cancelFails) ==
  LET s1 == Fire(s, "unplug")
      j  == s1.currentJob
      c  == Note(s1, L("cancel", "-", "-", "-", <<j>>))
      s2 == IF j = 0 THEN s1
            ELSE IF cancelFails
              THEN [Note(c, Did("cancelError")) EXCEPT !.currentJob = 0]
            ELSE [jobTurn(c, j, "canceled") EXCEPT !.currentJob = 0]
  IN  IF s1.thrown THEN s1
      ELSE Note(s2, L("return", "getBot", "-", s2.state, <<>>))

UnplugCommand ==
  \E cancelFails \in BOOLEAN :
    Commit(Caught(unplugCommand(Note(Cur, Called("unplugCommand")),
                                cancelFails)))

\* The Bot once connected, with one job to come, its commands and the
\* unplug command.
InitUnplug ==
  /\ Connected(MaxJobs)
  /\ NoReply
  /\ log = <<>>
  /\ tracing = TRUE

NextUnplug ==
  \/ NextJob
  \/ ProcessCommand
  \/ DelayElapsed
  \/ UnplugCommand

SpecUnplug == InitUnplug /\ [][NextUnplug]_vars

(* ---------------------------- validateReply ---------------------------- *)
\* A reply is a sequence of characters; "CR" and "LF" are the carriage
\* return and the line feed.
\* validateReply(command, reply): the command is not looked at
validateReply(r) == last(split(r, "LF")) = <<"o", "k">>

ReplyChars == {"o", "k", "CR", "LF"}

\* the replies of the design's scenarios: T:200 then ok, T:200 then error,
\* with CR-LF endings and a trailing CR-LF
ReplyOk ==
  <<"T", ":", "2", "0", "0", "CR", "LF", "o", "k", "CR", "LF">>

ReplyError ==
  <<"T", ":", "2", "0", "0", "CR", "LF", "e", "r", "r", "o", "r", "CR", "LF">>

Replies ==
  UNION {[1 .. n -> ReplyChars] : n \in 0 .. MaxReplyLen}
    \cup {ReplyOk, ReplyError}

\* the Bot as constructed, with a reply about to be validated
InitReply ==
  /\ Constructed(MaxJobs)
  /\ log = <<>>
  /\ tracing = FALSE
  /\ reply \in Replies
  /\ ack = "none"

\* the CommandQueue hands the reply of the device to validateReply
ValidateReply ==
  /\ ack = "none"
  /\ ack' = IF validateReply(reply) THEN "yes" ELSE "no"
  /\ UNCHANGED <<state, virtual, device, port, queue, currentJob, lr,
                 currentLine, numLines, jobs, readers, sent, delays,
                 lineTimers, scans, portScans, opens, log, tracing, reply>>

NextReply == ValidateReply

SpecReply == InitReply /\ [][NextReply]_vars

(* --------------------------- progress ---------------------------------- *)
\* Node's event loop runs every timer that has elapsed and every completion
\* that has arrived: the virtual delay, the port listing, the pre-scan, a
\* scheduled _nextLine and the per-line delay are taken once they are
\* pending.  Commands, job calls and USB events come from outside and owe
\* nothing.
InitLive ==
  /\ Constructed(MaxJobs)
  /\ NoReply
  /\ log = <<>>
  /\ tracing = FALSE

SpecLive ==
  /\ InitLive
  /\ [][Next]_vars
  /\ WF_vars(DelayElapsed)
  /\ WF_vars(PortsListed)
  /\ WF_vars(PreScanDone)
  /\ WF_vars(LrNextLine)
  /\ WF_vars(LineDelayElapsed)

\* one job on a connected Bot, its callbacks traced
InitOneJob ==
  /\ Connected(MaxJobs)
  /\ NoReply
  /\ log = <<>>
  /\ tracing = TRUE

SpecOneJob ==
  /\ InitOneJob
  /\ [][NextJob]_vars
  /\ WF_vars(PreScanDone)
  /\ WF_vars(LrNextLine)
  /\ WF_vars(LineDelayElapsed)

(* ============================== claims ================================= *)
\* The edges the design declares (spec section 4.1), the wildcard of unplug
\* written out for each of the ten states.
DeclaredStates ==
  {"unavailable", "detecting", "ready", "connecting", "connected",
   "startingJob", "processingJob", "stopping", "processingGcode",
   "disconnecting"}

DeclaredEdges ==
  { E("detect", "unavailable", "detecting"),
    E("detectDone", "detecting", "ready"),
    E("detectFail", "detecting", "unavailable"),
    E("connect", "ready", "connecting"),
    E("connectDone", "connecting", "connected"),
    E("connectFail", "connecting", "ready"),
    E("start", "connected", "startingJob"),
    E("startDone", "startingJob", "processingJob"),
    E("startFail", "startingJob", "connected"),
    E("stop", "processingJob", "stopping"),
    E("stopDone", "stopping", "connected"),
    E("stopFail", "stopping", "connected"),
    E("jobToGcode", "processingJob", "processingGcode"),
    E("jobGcodeDone", "processingGcode", "processingJob"),
    E("jobGcodeFail", "processingGcode", "processingJob"),
    E("connectedToGcode", "connected", "processingGcode"),
    E("connectedGcodeDone", "processingGcode", "connected"),
    E("connectedGcodeFail", "processingGcode", "connected"),
    E("disconnect", "connected", "disconnecting"),
    E("disconnectDone", "disconnecting", "ready"),
    E("disconnectFail", "disconnecting", "connected") }
  \cup { E("unplug", st, "unavailable") : st \in DeclaredStates }

\* the machine is created in its initial state `unavailable`
Initial == E("startup", "none", "unavailable")

Declared(ev, st) == \E e \in DeclaredEdges : e.name = ev /\ e.from = st

\* the fsm invocations of a log, in order: accepted ("event") or refused
Hops(lg) == SelectSeq(lg, LAMBDA x : x.k \in {"event", "error"})

\* the state an invocation leaves the machine in
After(h) == IF h.k = "event" THEN h.to ELSE h.from

\* the table of the code accepts every declared edge and gives it the
\* declared target
TableAgrees ==
  \A e \in DeclaredEdges :
    fsmCan(e.name, e.from) /\ fsmTo(e.name, e.from) = e.to

\* C1: every change of the lifecycle state follows a declared edge.  In each
\* callback of the Bot the fsm invocations form a chain that starts at the
\* state the callback started in and ends at the state it leaves; an event
\* invoked in a state it is declared for is accepted and ends in the declared
\* target; every accepted invocation is a declared edge; without an
\* invocation the state is the one the callback started in.  The table of
\* the code gives every declared edge its declared target, and the machine
\* is created in `unavailable`.
C1_DeclaredEdgesOnly ==
  LET H == Hops(log)
  IN  /\ TableAgrees
      /\ \A i \in 1 .. Len(H) :
           /\ H[i].from = IF i = 1 THEN log[1].from ELSE After(H[i - 1])
           /\ H[i].k = "event" =>
                E(H[i].ev, H[i].from, H[i].to) \in DeclaredEdges \cup {Initial}
           /\ Declared(H[i].ev, H[i].from) => H[i].k = "event"
      /\ H # <<>> => state = After(H[Len(H)])
      /\ (H = <<>> /\ log # <<>>) => state = log[1].from

\* C1 witness: a job was streaming when the device was unplugged, and the
\* unplug edge processingJob -> unavailable was taken.
C1_Witness ==
  /\ state = "unavailable"
  /\ \E i \in 1 .. Len(log) :
       log[i] = L("event", "unplug", "processingJob", "unavailable", <<>>)

\* C2: an event invoked in a state it is not declared for is logged, raised
\* and changes nothing: the invocation consists of the error report and the
\* throw, and the state is the one it was invoked in.
C2_UndeclaredRaises ==
  \A ev \in EventNames, st \in DeclaredStates :
    (log # <<>> /\ log[1] = L("call", ev, st, "-", <<>>) /\ ~Declared(ev, st))
      => /\ state = st
         /\ log = <<log[1], L("error", ev, st, st, <<>>),
                    L("throw", ev, st, st, <<>>)>>

\* C2 witness: start was invoked while a job was being processed and refused.
C2_Witness ==
  /\ state = "processingJob"
  /\ log = <<L("call", "start", "processingJob", "-", <<>>),
             L("error", "start", "processingJob", "processingJob", <<>>),
             L("throw", "start", "processingJob", "processingJob", <<>>)>>

\* C3 as stated: every accepted invocation of an event, unplug from any state
\* included, is followed at once by exactly one stateChange broadcast of the
\* new state, and no broadcast comes without one.
C3_Original ==
  /\ \A i \in 1 .. Len(log) :
       log[i].k = "event" =>
         /\ i < Len(log)
         /\ log[i + 1] = L("emit", log[i].ev, log[i].from, log[i].to, <<>>)
  /\ \A i \in 1 .. Len(log) :
       log[i].k = "emit" => i > 1 /\ log[i - 1].k = "event"

\* C3 amended: every accepted invocation that changes the state is followed
\* at once, before any other effect, by exactly one stateChange broadcast of
\* the new state; an accepted invocation that leaves the state as it is
\* (unplug in `unavailable`) broadcasts nothing; nothing else broadcasts.
C3_BroadcastPerChange ==
  /\ \A i \in 1 .. Len(log) :
       log[i].k = "event" =>
         IF log[i].from # log[i].to
           THEN /\ i < Len(log)
                /\ log[i + 1] = L("emit", log[i].ev, log[i].from, log[i].to, <<>>)
           ELSE i = Len(log) \/ log[i + 1].k # "emit"
  /\ \A i \in 1 .. Len(log) :
       log[i].k = "emit" =>
         i > 1 /\ log[i - 1].k = "event" /\ log[i - 1].from # log[i - 1].to

\* C3 witness: the unplug of a bot that was processing a job broadcast
\* `unavailable` right after the event.
C3_Witness ==
  \E i \in 1 .. (Len(log) - 1) :
    /\ log[i] = L("event", "unplug", "processingJob", "unavailable", <<>>)
    /\ log[i + 1] = L("emit", "unplug", "processingJob", "unavailable", <<>>)
    /\ state = "unavailable"

(* ----------------------- transitional states --------------------------- *)
Transitional ==
  {"detecting", "connecting", "startingJob", "stopping", "disconnecting"}

\* C4: whenever the machine is in a transitional state it eventually leaves
\* it, the work of that state ending in its Done or its Fail event.
C4_TransitionalLeft ==
  \A st \in Transitional : (state = st) ~> (state # st)

\* C4 witness: a startJob whose file lookup failed left the Bot in
\* startingJob with no continuation pending.
C4_Witness ==
  /\ state = "startingJob"
  /\ scans = <<>>
  /\ currentJob # 0
  /\ jobs[currentJob].file = Missing

(* --------------------------- job streaming ----------------------------- *)
\* the commands a file holds: the text of each line before its first `;`,
\* the empty ones left out, in file order
Stripped(f) == [i \in 1 .. Len(fileLines(f)) |-> stripComment(fileLines(f)[i])]

CommandsIn(f) == SelectSeq(Stripped(f), LAMBDA c : c # <<>>)

\* the lines of job j delivered by its reader and not yet through processing
InFlight(j) == {i \in DOMAIN lineTimers : lineTimers[i].job = j}

\* job j was run to the end of its file and all its lines are processed
RanToEnd(j) == readers[j].eof /\ InFlight(j) = {}

\* C5: once a job's file of N lines was run to its end, the commands
\* forwarded to the queue are the file's K non-empty stripped lines in file
\* order, and the line cursor of that job is N.
C5_CommandsForwarded ==
  \A j \in JobIds :
    RanToEnd(j) =>
      /\ sent[j] = CommandsIn(jobs[j].file)
      /\ lr = j => currentLine = Len(fileLines(jobs[j].file))

\* C5 witness: a job on a virtual Bot ran to the end of its file, all its
\* lines processed, and a command of the file was never forwarded.
C5_Witness ==
  \E j \in JobIds :
    /\ virtual
    /\ RanToEnd(j)
    /\ Len(sent[j]) < Len(CommandsIn(jobs[j].file))

\* what the 'end' handler of an undisturbed job is to do, in order
EndOfFile ==
  <<L("event", "stop", "processingJob", "stopping", <<>>),
    L("emit", "stop", "processingJob", "stopping", <<>>),
    Did("close"),
    L("event", "stopDone", "stopping", "connected", <<>>),
    L("emit", "stopDone", "stopping", "connected", <<>>),
    Did("complete"),
    Did("stopwatch")>>

\* C6: a job started on a connected Bot, physical or virtual, with no pause,
\* stop or unplug issued, eventually is completed with the Bot `connected`;
\* and when its stream reports the end of the file the handler performs
\* stop, close, stopDone, complete, stopwatch in this order.
C6_RunsToCompletion ==
  /\ \A j \in 1 .. MaxJobs :
       (jobs[j].undisturbed /\ jobs[j].file # Missing)
         ~> \/ jobs[j].st = "completed" /\ state = "connected"
            \/ ~jobs[j].undisturbed
  /\ [][\A i \in 1 .. Len(log') :
          (log'[i] = Did("end") /\ currentJob # 0 /\ jobs[currentJob].undisturbed)
            => SubSeq(log', i + 1, Len(log')) = EndOfFile]_vars

\* C6 witness: an undisturbed job on a virtual Bot with nothing left to
\* run: its first command was taken off the delay and the reader stays
\* paused in processingJob.
C6_Witness ==
  \E j \in JobIds :
    /\ virtual
    /\ jobs[j].undisturbed
    /\ jobs[j].st = "running"
    /\ state = "processingJob"
    /\ readers[j].delivered # <<>>
    /\ readers[j].paused
    /\ scans = <<>>
    /\ lineTimers = <<>>

\* C7: at most one line of a job is between delivery and the end of its
\* processing, and the reader delivers a line of the job only when none is.
C7_OneLineInFlight ==
  /\ [](\A j \in JobIds : Cardinality(InFlight(j)) <= 1)
  /\ [][\A j \in JobIds :
          readers'[j].delivered # readers[j].delivered => InFlight(j) = {}]_vars

\* C7 witness: two lines of one job are in their processing delay at once.
C7_Witness == \E j \in JobIds : Cardinality(InFlight(j)) = 2

\* sequence a is the beginning of sequence b
IsPrefix(a, b) == Len(a) <= Len(b) /\ SubSeq(b, 1, Len(a)) = a

\* C8: under any pauseJob and resumeJob calls on a Bot that stays plugged,
\* each delivery hands out the next unread line (no line twice, none
\* skipped, file order), a job run to the end had every line delivered,
\* what was forwarded stays forwarded, and no line is delivered while the
\* job is paused.
C8_PauseResume ==
  /\ [](\A j \in JobIds :
          readers[j].eof =>
            readers[j].delivered =
              [i \in 1 .. Len(fileLines(jobs[j].file)) |-> i])
  /\ [][\A j \in JobIds :
          /\ \/ readers'[j].delivered = readers[j].delivered
             \/ readers'[j].delivered =
                  Append(readers[j].delivered, Len(readers[j].delivered) + 1)
          /\ IsPrefix(sent[j], sent'[j])
          /\ (jobs[j].st = "paused" /\ device # "undefined")
               => readers'[j].delivered = readers[j].delivered]_vars

\* C8 witness: a line was delivered to a job paused before its pre-scan
\* ended; the Bot is in processingJob with the job paused.
C8_Witness ==
  \E j \in JobIds :
    /\ jobs[j].st = "paused"
    /\ state = "processingJob"
    /\ device # "undefined"
    /\ lr = j
    /\ readers[j].delivered # <<>>

\* job j is the Bot's job and is streaming or paused
Streaming(j) ==
  lr = j /\ currentJob = j /\ state = "processingJob" /\ jobs[j].st = "running"

Paused(j) ==
  lr = j /\ currentJob = j /\ state = "connected" /\ jobs[j].st = "paused"

\* C9: a stopJob on a Bot whose job is streaming or paused leaves the line
\* source closed and its reference discarded, and the Bot `connected`.
C9_StopCloses ==
  [][\A j \in JobIds :
       (jobs'[j].st = "canceled" /\ (Streaming(j) \/ Paused(j)))
         => /\ lr' = 0
            /\ readers'[j].closed
            /\ state' = "connected"]_vars

\* C9 witness: the job was canceled while paused; its line source is still
\* open and referenced.
C9_Witness ==
  \E j \in JobIds :
    /\ jobs[j].st = "canceled"
    /\ state = "connected"
    /\ lr = j
    /\ ~readers[j].closed

\* the line sources that exist and are open
OpenReaders ==
  {j \in JobIds : readers[j].made /\ ~readers[j].closed /\ ~readers[j].ended}

\* C10: there is never more than one open line source, and a startJob of
\* job j while job k is streaming or paused neither makes a reader for j nor
\* replaces k as the current job.
C10_OnePipeline ==
  /\ [](Cardinality(OpenReaders) <= 1)
  /\ [][\A j \in JobIds, k \in JobIds :
          (jobs[j].st = "none" /\ jobs'[j].st # "none"
           /\ (Streaming(k) \/ Paused(k)))
            => currentJob' = k /\ ~readers'[j].made]_vars

\* C10 witness: two line sources are open, and the job started second is
\* the current job while the first is still paused.
C10_Witness ==
  /\ Cardinality(OpenReaders) = 2
  /\ currentJob = 2
  /\ jobs[1].st = "paused"

(* ------------------------------ line count ----------------------------- *)
\* C11: once the pre-scan of the job being read has set numLines, the line
\* cursor is at most numLines, whatever the file and at every point.
C11_CursorBounded ==
  (lr # 0 /\ scans = <<>> /\ numLines # UNDEF /\ currentLine # UNDEF)
    => currentLine <= numLines

\* C11 witness: the one-line file without a final newline was read; the
\* pre-scan counted no line terminator and the cursor stands at 1.
C11_Witness ==
  /\ lr # 0
  /\ ~fileFinalNewline(jobs[lr].file)
  /\ scans = <<>>
  /\ numLines = 0
  /\ currentLine = 1

\* the pre-scan of job j's file has not reported its end yet
Scanning(j) == \E i \in DOMAIN scans : scans[i].job = j

\* C12: no line of a job is delivered, and no command of it forwarded, while
\* the pre-scan that sets the job's line count is still running.
C12_CountBeforeForward ==
  \A j \in JobIds :
    Scanning(j) => (readers[j].delivered = <<>> /\ sent[j] = <<>>)

\* C12 witness: job 1 was canceled with a line in its delay, job 2 was
\* started afterwards, and a command of job 2 is forwarded while the
\* pre-scan of job 2 is still running.
C12_Witness ==
  /\ jobs[1].st = "canceled"
  /\ Scanning(2)
  /\ sent[2] # <<>>

(* ----------------------------- replies --------------------------------- *)
\* a segment without its carriage return
Chomp(seg) ==
  IF seg # <<>> /\ seg[Len(seg)] = "CR" THEN SubSeq(seg, 1, Len(seg) - 1)
  ELSE seg

\* the newline-delimited segments of a reply that are not absent
Segments(r) ==
  SelectSeq([i \in 1 .. Len(split(r, "LF")) |-> Chomp(split(r, "LF")[i])],
            LAMBDA seg : seg # <<>>)

\* the last segment that is not absent is exactly `ok`
LastIsOk(r) == Segments(r) # <<>> /\ last(Segments(r)) = <<"o", "k">>

\* C13: validateReply acknowledges a reply exactly when its last segment
\* that is not absent, carriage returns tolerated, is `ok`; the reply of
\* T:200 and ok is acknowledged, the one of T:200 and error is not.
C13_AcknowledgedIffOk ==
  ack # "none" => (ack = "yes" <=> LastIsOk(reply))

\* C13 witness: the reply T:200, ok with CR-LF endings was validated and
\* not acknowledged.
C13_Witness == reply = ReplyOk /\ ack = "no"

(* ------------------------- createVirtualBot ---------------------------- *)
\* what processCommand('createVirtualBot') does on a bot that is not virtual
\* and is `unavailable`, in order
CreateVirtualTrace ==
  <<L("call", "createVirtualBot", "unavailable", "-", <<>>),
    L("event", "detect", "unavailable", "detecting", <<>>),
    L("emit", "detect", "unavailable", "detecting", <<>>),
    L("event", "detectDone", "detecting", "ready", <<>>),
    L("emit", "detectDone", "detecting", "ready", <<>>),
    L("return", "getBot", "-", "ready", <<>>)>>

\* C14: processCommand('createVirtualBot') on a bot that is not virtual and
\* is `unavailable` takes unavailable -> detecting -> ready before it
\* returns, and the getBot() it returns reports `ready`.
C14_CreateVirtualReady ==
  [][(/\ ~virtual
      /\ state = "unavailable"
      /\ log' # <<>>
      /\ log'[1] = L("call", "createVirtualBot", "unavailable", "-", <<>>))
       => /\ log' = CreateVirtualTrace
          /\ state' = "ready"
          /\ virtual']_vars

\* C14 witness: the command ran on such a bot and returned `ready`.
C14_Witness ==
  /\ log = CreateVirtualTrace
  /\ state = "ready"
  /\ virtual
  /\ device = "spoofed"

(* --------------------------- virtual connect --------------------------- *)
\* Timers of one length fire in the order they were started, so in
\* `connecting` the delay of the connect that was accepted last is the last
\* "connect" of `delays`; it has elapsed once no "connect" is left.
ConnectPending(d) == \E i \in DOMAIN d : d[i] = "connect"

\* C15: a virtual bot that a connect took to `connecting` becomes
\* `connected` only by the elapse of the delay that connect started, never
\* by the delay of an earlier connect, and when that delay elapses in
\* `connecting` the bot becomes `connected`.
C15_OwnDelayConnects ==
  [][/\ (virtual /\ state = "connecting" /\ state' = "connected")
          => ~ConnectPending(delays')
     /\ (virtual /\ state = "connecting" /\ delays = <<"connect">>
           /\ delays' = <<>>)
          => state' = "connected"]_vars

\* C15 witness: the bot is `connected` while the delay of a connect is
\* still running.
C15_Witness ==
  /\ virtual
  /\ state = "connected"
  /\ delays = <<"connect">>

(* ---------------------------- device locator -------------------------- *)
RECURSIVE ToHex(_)
\* the hexadecimal numeral of n, without leading zeros
ToHex(n) ==
  IF n < 16 THEN <<HexDigits[n + 1]>>
  ELSE Append(ToHex(n \div 16), HexDigits[(n % 16) + 1])

RECURSIVE NoLeadingZeros(_)
NoLeadingZeros(str) ==
  IF Len(str) > 1 /\ str[1] = "0" THEN NoLeadingZeros(Tail(str)) ELSE str

\* str is the hexadecimal encoding of n, with or without `0x` in front
Denotes(str, n) ==
  LET body == IF Len(str) >= 2 /\ SubSeq(str, 1, 2) = <<"0", "x">>
                THEN SubSeq(str, 3, Len(str)) ELSE str
  IN  str # NoId /\ body # <<>> /\ NoLeadingZeros(body) = ToHex(n)

\* the listing has a port with the ids of the device
HasPort(ports) ==
  \E i \in DOMAIN ports :
    Denotes(ports[i].vendorId, idVendor) /\ Denotes(ports[i].productId, idProduct)

Logged(lg, k, ev) == \E i \in DOMAIN lg : lg[i].k = k /\ lg[i].ev = ev

\* C16: when the ports are listed for an attached device with the bot's
\* ids, the bot being `unavailable`: if a port
\* of the listing has the device's ids, its path is recorded and detection
\* is triggered and takes the bot to `ready` (or back to `unavailable`
\* through detectFail); if none has, no detection is triggered, nothing is
\* raised and the bot stays `unavailable`.  The attach of a device with other
\* ids changes nothing.
C16_AttachDetects ==
  [][/\ (/\ log' # <<>>
         /\ log'[1].ev = "ports"
         /\ state = "unavailable")
          => IF HasPort(log'[1].cmd)
               THEN /\ port' = "com"
                    /\ Logged(log', "event", "detect")
                    /\ state' = "ready" \/ Logged(log', "event", "detectFail")
               ELSE /\ ~Logged(log', "event", "detect")
                    /\ ~Logged(log', "TypeError", "-")
                    /\ state' = "unavailable"
     /\ (log' # <<>> /\ log'[1] = CalledWith("attach", <<FALSE>>))
          => UNCHANGED <<state, virtual, device, port, queue, currentJob, lr,
                         portScans>>]_vars

\* C16 witness: the device was detached while its ports were being listed;
\* the listing still had its port, and the callback raised a TypeError
\* without recording the path or running detection.
C16_Witness ==
  /\ log = <<CalledWith("ports", <<Port("com", Vx16c0, Px0483)>>),
             Did("TypeError")>>
  /\ state = "unavailable"
  /\ device = "undefined"
  /\ port = "undefined"

(* ------------------------ unsupported commands ------------------------- *)
Supported == {"createVirtualBot", "destroyVirtualBot", "connect", "disconnect"}

\* C17: processCommand with a token other than createVirtualBot,
\* destroyVirtualBot, connect and disconnect is rejected with the 'not
\* supported' message and changes nothing: state, virtual flag, device,
\* current job and line source (and every other field) stay as they were.
C17_UnsupportedRejected ==
  [][\A command \in Commands \ Supported :
       (log' # <<>> /\ log'[1] = Called(command))
         => /\ log' = <<Called(command), Did("notSupported")>>
            /\ UNCHANGED <<state, virtual, device, port, queue, currentJob,
                           lr, currentLine, numLines, jobs, readers, sent,
                           delays, lineTimers, scans, portScans>>]_vars

\* C17 witness: the token was rejected while a job was streaming.
C17_Witness ==
  /\ log = <<L("call", "bogus", "processingJob", "-", <<>>),
             Did("notSupported")>>
  /\ state = "processingJob"
  /\ currentJob # 0
  /\ lr # 0

(* --------------------------- physical connect -------------------------- *)
\* C18: on a bot that is not virtual the state does not become `connected`
\* while an open directive is pending in the CommandQueue, and an open that
\* failed drives connectFail, back to `ready`.
C18_ConnectedAfterOpen ==
  [][/\ (~virtual /\ state # "connected" /\ state' = "connected")
          => opens' = 0
     /\ (~virtual /\ state = "connecting" /\ log' # <<>>
           /\ log'[1] = CalledWith("opened", <<FALSE>>))
          => (Logged(log', "event", "connectFail") /\ state' = "ready")]_vars

\* C18 witness: the connect of a detected physical bot has returned, the bot
\* is `connected` and the open it queued has not completed.
C18_Witness ==
  /\ ~virtual
  /\ queue
  /\ state = "connected"
  /\ opens = 1
  /\ Logged(log, "queueOpen", "-")
  /\ Logged(log, "event", "connectDone")

(* ----------------------- forwarding and the state ---------------------- *)
\* C19: a command of a job is forwarded to the CommandQueue only in a
\* callback that finds the bot in `processingJob`: after pauseJob, stopJob
\* or unplug (`connected`, `unavailable`) nothing is forwarded, the line
\* that was in its delay included.
C19_ForwardWhileProcessing ==
  [][\A j \in JobIds : sent'[j] # sent[j] => state = "processingJob"]_vars

\* C19 witness: the job was paused while a line was in its delay, and the
\* delay elapsed with the bot `connected`: the command was forwarded.
C19_Witness ==
  /\ state = "connected"
  /\ currentJob # 0
  /\ jobs[currentJob].st = "paused"
  /\ log # <<>>
  /\ log[1] = L("call", "lineDelay", "connected", "-", <<>>)
  /\ Logged(log, "forward", "-")
  /\ sent[currentJob] # <<>>

(* -------------------------- a refused startJob ------------------------- *)
\* C20: a startJob whose `start` is refused, the bot not being `connected`,
\* leaves the current-job reference, the line source and the line cursor
\* as they were.
C20_RefusedStartKeeps ==
  [][(/\ ~fsmCan("start", state)
      /\ \E j \in JobIds : jobs[j].st = "none" /\ jobs'[j].st # "none")
       => UNCHANGED <<currentJob, lr, currentLine>>]_vars

\* C20 witness: job 1 is streaming through its reader and the bot's job is
\* job 2, whose startJob was refused in `processingJob`.
C20_Witness ==
  /\ state = "processingJob"
  /\ lr = 1
  /\ jobs[1].st = "running"
  /\ currentJob = 2
  /\ ~readers[2].made

(* ------------------------- the unplug command -------------------------- *)
\* C21: the unplug command, in whatever state it is called, leaves the bot
\* `unavailable` with no current job, has called cancel on the job that was
\* current (and on none when there was none), and returns the bot's
\* description, also when cancel raised; a cancel that did not raise has
\* turned the job canceled.
C21_UnplugCommand ==
  [][(log' # <<>> /\ log'[1] = Called("unplugCommand"))
       => /\ state' = "unavailable"
          /\ currentJob' = 0
          /\ log'[Len(log')] = L("return", "getBot", "-", "unavailable", <<>>)
          /\ Logged(log', "cancel", "-") <=> currentJob # 0
          /\ \A i \in DOMAIN log' :
               log'[i].k = "cancel" => log'[i].cmd = <<currentJob>>
          /\ (currentJob # 0 /\ ~Logged(log', "cancelError", "-"))
               => jobs'[currentJob].st = "canceled"]_vars

\* C21 witness: the command was called while a job was being processed,
\* cancel raised, and the command returned with the reference cleared.
C21_Witness ==
  /\ log # <<>>
  /\ log[1] = L("call", "unplugCommand", "processingJob", "-", <<>>)
  /\ Logged(log, "cancelError", "-")
  /\ log[Len(log)] = L("return", "getBot", "-", "unavailable", <<>>)
  /\ state = "unavailable"
  /\ currentJob = 0

====
